---- MODULE Spec2Model ----
(***************************************************************************)
(* Wind Energy Feasibility Dashboard (src/app.py): one run of the          *)
(* "Analyze Wind Potential" button handler, from the fetch of the hourly   *)
(* wind speeds to the summary table.                                       *)
(*                                                                         *)
(* Python floats are modelled as exact rationals (plus nan and inf), so    *)
(* that every formula of the script is computed, not abstracted.  The      *)
(* numerators and denominators outgrow TLC's 32-bit integers (the annual   *)
(* energy is a sixth power of the mean speed), hence they are kept as      *)
(* little-endian digit sequences in base Base.                             *)
(***************************************************************************)
EXTENDS Integers, Sequences, FiniteSets, TLC

\* ---------------------------------------------------------------- bounds
MaxSamples == 2   \* hourly samples in one response
MaxDay == 3       \* calendar days the response may cover

\* ------------------------------------------------- natural numbers (digits)
Base == 10 ^ 4

RECURSIVE NatOf(_)
NatOf(i) == IF i = 0 THEN <<>> ELSE <<i % Base>> \o NatOf(i \div Base)

RECURSIVE NatStrip(_)
NatStrip(a) ==
  IF a = <<>> THEN <<>>
  ELSE IF a[Len(a)] = 0 THEN NatStrip(SubSeq(a, 1, Len(a) - 1))
  ELSE a

RECURSIVE NatAddC(_, _, _)
NatAddC(a, b, c) ==
  IF a = <<>> /\ b = <<>> THEN (IF c = 0 THEN <<>> ELSE <<c>>)
  ELSE LET x == IF a = <<>> THEN 0 ELSE Head(a)
           y == IF b = <<>> THEN 0 ELSE Head(b)
           s == x + y + c
       IN  <<s % Base>> \o NatAddC(IF a = <<>> THEN <<>> ELSE Tail(a),
                                   IF b = <<>> THEN <<>> ELSE Tail(b),
                                   s \div Base)

NatAdd(a, b) == NatAddC(a, b, 0)

\* a - b for a >= b
RECURSIVE NatSubB(_, _, _)
NatSubB(a, b, br) ==
  IF a = <<>> THEN <<>>
  ELSE LET y == IF b = <<>> THEN 0 ELSE Head(b)
           s == Head(a) - y - br
       IN  <<s % Base>> \o NatSubB(Tail(a),
                                   IF b = <<>> THEN <<>> ELSE Tail(b),
                                   IF s < 0 THEN 1 ELSE 0)

NatSub(a, b) == NatStrip(NatSubB(a, b, 0))

RECURSIVE NatMulD(_, _, _)
NatMulD(a, d, c) ==
  IF a = <<>> THEN (IF c = 0 THEN <<>> ELSE <<c>>)
  ELSE LET s == Head(a) * d + c
       IN  <<s % Base>> \o NatMulD(Tail(a), d, s \div Base)

RECURSIVE NatMul(_, _)
NatMul(a, b) ==
  IF a = <<>> \/ b = <<>> THEN <<>>
  ELSE IF b = <<1>> THEN a
  ELSE IF a = <<1>> THEN b
  ELSE IF Len(b) > Len(a) THEN NatMul(b, a)
  ELSE LET rest == NatMul(a, Tail(b))
           low  == IF Head(b) = 0 THEN <<>> ELSE NatMulD(a, Head(b), 0)
       IN  NatAdd(low, IF rest = <<>> THEN <<>> ELSE <<0>> \o rest)

\* -1, 0, 1 as a < b, a = b, a > b
RECURSIVE NatCmpEq(_, _)
NatCmpEq(a, b) ==
  IF a = <<>> THEN 0
  ELSE LET n == Len(a)
       IN  IF a[n] < b[n] THEN -1
           ELSE IF a[n] > b[n] THEN 1
           ELSE NatCmpEq(SubSeq(a, 1, n - 1), SubSeq(b, 1, n - 1))

NatCmp(a, b) ==
  IF Len(a) < Len(b) THEN -1
  ELSE IF Len(a) > Len(b) THEN 1
  ELSE NatCmpEq(a, b)

\* ------------------------------------------------------- signed integers
ZOf(i) == [neg |-> i < 0, mag |-> NatOf(IF i < 0 THEN -i ELSE i)]

ZNeg(x) == [neg |-> x.mag # <<>> /\ ~x.neg, mag |-> x.mag]

ZAdd(x, y) ==
  IF x.neg = y.neg THEN [neg |-> x.neg, mag |-> NatAdd(x.mag, y.mag)]
  ELSE LET c == NatCmp(x.mag, y.mag)
       IN  IF c = 0 THEN [neg |-> FALSE, mag |-> <<>>]
           ELSE IF c > 0 THEN [neg |-> x.neg, mag |-> NatSub(x.mag, y.mag)]
           ELSE [neg |-> y.neg, mag |-> NatSub(y.mag, x.mag)]

ZMul(x, y) ==
  LET m == NatMul(x.mag, y.mag)
  IN  [neg |-> m # <<>> /\ x.neg # y.neg, mag |-> m]

\* -1, 0, 1 as x < 0, x = 0, x > 0
ZSign(x) == IF x.mag = <<>> THEN 0 ELSE IF x.neg THEN -1 ELSE 1

\* ------------------------------------------------------- Python floats
\* A float is a rational n/d (d > 0), nan, or inf; None is a name not yet bound.
Num(z, d) == [k |-> "num", n |-> z, d |-> d]
NaN == [k |-> "nan", n |-> ZOf(0), d |-> NatOf(1)]
Inf == [k |-> "inf", n |-> ZOf(0), d |-> NatOf(1)]
None == [k |-> "none", n |-> ZOf(0), d |-> NatOf(1)]

FInt(i) == Num(ZOf(i), NatOf(1))
FRat(i, j) == Num(ZOf(i), NatOf(j))

IsNum(x) == x.k = "num"

\* nan propagates through every arithmetic operation
FAdd(x, y) ==
  IF ~IsNum(x) \/ ~IsNum(y) THEN NaN
  ELSE Num(ZAdd(ZMul(x.n, [neg |-> FALSE, mag |-> y.d]),
                ZMul(y.n, [neg |-> FALSE, mag |-> x.d])),
           NatMul(x.d, y.d))

FNeg(x) == IF ~IsNum(x) THEN NaN ELSE Num(ZNeg(x.n), x.d)

FSub(x, y) == FAdd(x, FNeg(y))

FMul(x, y) ==
  IF ~IsNum(x) \/ ~IsNum(y) THEN NaN
  ELSE Num(ZMul(x.n, y.n), NatMul(x.d, y.d))

\* the script never divides by zero: its divisors are 12, 5, 100,
\* total_investment and an annual_profit it has tested to be > 0
FDiv(x, y) ==
  IF ~IsNum(x) \/ ~IsNum(y) THEN NaN
  ELSE Num([neg |-> x.n.mag # <<>> /\ x.n.neg # y.n.neg,
            mag |-> NatMul(x.n.mag, y.d)],
           NatMul(x.d, y.n.mag))

FCube(x) == FMul(x, FMul(x, x))

\* -1, 0, 1 for two numbers
FCmp(x, y) ==
  IF x.d = y.d THEN ZSign(ZAdd(x.n, ZNeg(y.n)))
  ELSE ZSign(ZAdd(ZMul(x.n, [neg |-> FALSE, mag |-> y.d]),
                  ZNeg(ZMul(y.n, [neg |-> FALSE, mag |-> x.d]))))

\* every ordered comparison with nan is False
FLe(x, y) == IsNum(x) /\ IsNum(y) /\ FCmp(x, y) <= 0
FLt(x, y) == IsNum(x) /\ IsNum(y) /\ FCmp(x, y) < 0
FGe(x, y) == FLe(y, x)
FGt(x, y) == FLt(y, x)
FEq(x, y) ==
  IF IsNum(x) /\ IsNum(y) THEN FCmp(x, y) = 0
  ELSE x.k = "inf" /\ y.k = "inf"

\* Python's min(x, y): y only when y < x
FMin(x, y) == IF FLt(y, x) THEN y ELSE x

\* ------------------------------------------------------ program constants
HoursPerDay == 24          \* resample("D"): one bin per calendar day
CutIn == 3
Rated == 12
CutOut == 25
Nameplate == 5
turbine_cost == 25000
installation_cost == 15000
maintenance_yearly == 1000
electricity_price == FRat(12, 100)

months == <<"Jan", "Feb", "Mar", "Apr", "May", "Jun",
            "Jul", "Aug", "Sep", "Oct", "Nov", "Dec">>
\* in hundredths
seasonal_multipliers == <<115, 110, 105, 95, 85, 80, 75, 80, 90, 100, 105, 110>>

\* ------------------------------------------------------------------ inputs
\* wind speeds (m/s) the archive may report for an hour
Speeds == {0, 6, 8, 24, 26}

\* hour stamps of the samples: the first and the last hour of each day
Stamps == {d * HoursPerDay + h : d \in 0..(MaxDay - 1), h \in {0, HoursPerDay - 1}}

Increasing(t) == \A i \in 1..(Len(t) - 1) : t[i] < t[i + 1]

\* the archive's time array is ordered, one entry per sample
TimeSeqs(n) == {t \in [1..n -> Stamps] : Increasing(t)}

\* random.uniform(-0.3, 0.3), one draw per month, in tenths: the two ends and
\* the middle of the interval, in three arrangements over the months
JitterDraws == <<-3, 0, 3>>
JitterVectors ==
  {[i \in 1..12 |-> JitterDraws[((i + r) % 3) + 1]] : r \in 0..2}

\* what requests.get / response.json() hand to the script
Responses ==
  {[status |-> "neterr", hourly |-> FALSE, has_time |-> FALSE, has_wind |-> FALSE,
    time |-> <<>>, wind |-> <<>>],
   [status |-> "badjson", hourly |-> FALSE, has_time |-> FALSE, has_wind |-> FALSE,
    time |-> <<>>, wind |-> <<>>],
   [status |-> "json", hourly |-> FALSE, has_time |-> FALSE, has_wind |-> FALSE,
    time |-> <<>>, wind |-> <<>>],
   [status |-> "json", hourly |-> TRUE, has_time |-> FALSE, has_wind |-> TRUE,
    time |-> <<>>, wind |-> <<>>],
   [status |-> "json", hourly |-> TRUE, has_time |-> TRUE, has_wind |-> FALSE,
    time |-> <<>>, wind |-> <<>>]}
  \cup
  UNION {{[status |-> "json", hourly |-> TRUE, has_time |-> TRUE, has_wind |-> TRUE,
           time |-> t, wind |-> w] : t \in TimeSeqs(n), w \in [1..n -> Speeds]}
         : n \in 0..MaxSamples}

\* ---------------------------------------------------------- pure functions
\* faulty variant: a failed fetch is answered with an empty frame instead of
\* an exception
fetch_hourly_winds_default(resp) ==
  IF resp.status # "json" \/ ~resp.hourly \/ ~resp.has_time \/ ~resp.has_wind
  THEN [error |-> "none", df |-> <<>>]
  ELSE [error |-> "none",
        df |-> [i \in 1..Len(resp.time) |->
                  [time |-> resp.time[i], wind_speed |-> FInt(resp.wind[i])]]]

\* lines 33-46, fetch_hourly_winds: the exception it raises ("none" when it returns) and
\* the frame it returns
fetch_hourly_winds(resp) ==
  IF resp.status = "neterr" THEN [error |-> "ConnectionError", df |-> <<>>]
  ELSE IF resp.status = "badjson" THEN [error |-> "JSONDecodeError", df |-> <<>>]
  ELSE IF ~resp.hourly \/ ~resp.has_time \/ ~resp.has_wind
       THEN [error |-> "KeyError", df |-> <<>>]
  ELSE [error |-> "none",
        df |-> [i \in 1..Len(resp.time) |->
                  [time |-> resp.time[i], wind_speed |-> FInt(resp.wind[i])]]]

Day(t) == t \div HoursPerDay

RECURSIVE FSum(_)
FSum(xs) == IF xs = <<>> THEN FInt(0) ELSE FAdd(Head(xs), FSum(Tail(xs)))

\* Series.mean(): nan for an empty series
Mean(xs) == IF xs = <<>> THEN NaN ELSE FDiv(FSum(xs), FInt(Len(xs)))

RECURSIVE SpeedsOn(_, _)
SpeedsOn(df, day) ==
  IF df = <<>> THEN <<>>
  ELSE (IF Day(Head(df).time) = day THEN <<Head(df).wind_speed>> ELSE <<>>)
         \o SpeedsOn(Tail(df), day)

SetMin(S) == CHOOSE x \in S : \A y \in S : x <= y
SetMax(S) == CHOOSE x \in S : \A y \in S : x >= y

\* faulty variant: group by calendar day (only the days that have a sample)
DailyMeansGroupBy(df) ==
  LET days == {Day(df[i].time) : i \in 1..Len(df)}
      dayAt[i \in 1..Cardinality(days)] ==
        CHOOSE d \in days : Cardinality({e \in days : e < d}) = i - 1
  IN  [i \in 1..Cardinality(days) |->
         [time |-> dayAt[i] * HoursPerDay,
          wind_speed |-> Mean(SpeedsOn(df, dayAt[i]))]]

\* df.resample("D", on="time").mean().reset_index(): one row per calendar
\* day from the first sample's day to the last sample's day, a day without
\* samples included (its mean is nan); an empty frame stays empty
DailyMeans(df) ==
  IF df = <<>> THEN <<>>
  ELSE LET days  == {Day(df[i].time) : i \in 1..Len(df)}
           first == SetMin(days)
           last  == SetMax(days)
       IN  [i \in 1..(last - first + 1) |->
              [time |-> (first + i - 1) * HoursPerDay,
               wind_speed |-> Mean(SpeedsOn(df, first + i - 1))]]

Column(df) == [i \in 1..Len(df) |-> df[i].wind_speed]

\* faulty variant: the cut-in speed itself yields no power
PowerOutputStrictCutIn(avg) ==
  IF FLt(FInt(CutIn), avg) /\ FLe(avg, FInt(CutOut))
  THEN IF FLe(avg, FInt(Rated))
       THEN FMul(FInt(Nameplate), FCube(FDiv(avg, FInt(Rated))))
       ELSE FInt(Nameplate)
  ELSE FInt(0)

\* faulty variant: the cubic ramp is not capped at the rated speed
PowerOutputNoPlateau(avg) ==
  IF FLe(FInt(CutIn), avg) /\ FLe(avg, FInt(CutOut))
  THEN FMul(FInt(Nameplate), FCube(FDiv(avg, FInt(Rated))))
  ELSE FInt(0)

\* lines 72-78
PowerOutput(avg) ==
  IF FLe(FInt(CutIn), avg) /\ FLe(avg, FInt(CutOut))
  THEN IF FLe(avg, FInt(Rated))
       THEN FMul(FInt(Nameplate), FCube(FDiv(avg, FInt(Rated))))
       ELSE FInt(Nameplate)
  ELSE FInt(0)

\* line 80
CapacityFactor(power) ==
  IF FGt(power, FInt(0))
  THEN FMin(FMul(FDiv(power, FInt(Nameplate)), FInt(100)), FInt(100))
  ELSE FInt(0)

\* faulty variant: the capacity factor is not applied
AnnualEnergyFullLoad(power, cf) == FMul(FMul(power, FInt(24)), FInt(365))

\* line 81
AnnualEnergy(power, cf) ==
  FMul(FMul(FMul(power, FInt(24)), FInt(365)), FDiv(cf, FInt(100)))

\* lines 91-98: the word the banner prints in bold
Banner(avg) ==
  IF FGe(avg, FInt(8)) THEN "EXCELLENT"
  ELSE IF FGe(avg, FInt(6)) THEN "GOOD"
  ELSE IF FGe(avg, FInt(4)) THEN "FAIR"
  ELSE "POOR"

\* faulty variant: the boundaries belong to the lower rating
SummaryRatingStrict(avg) ==
  IF FGt(avg, FInt(8)) THEN "Excellent"
  ELSE IF FGt(avg, FInt(6)) THEN "Good"
  ELSE IF FGt(avg, FInt(4)) THEN "Fair"
  ELSE "Poor"

\* line 150: the Rating column of the summary table
SummaryRating(avg) ==
  IF FGe(avg, FInt(8)) THEN "Excellent"
  ELSE IF FGe(avg, FInt(6)) THEN "Good"
  ELSE IF FGe(avg, FInt(4)) THEN "Fair"
  ELSE "Poor"

\* line 104, one month
MonthlySpeed(avg, m, j) == FAdd(FMul(avg, FRat(m, 100)), FRat(j, 10))

\* faulty variant: no cut-out in the monthly projection
MonthlyPowerNoCutOut(s) ==
  IF FLe(FInt(CutIn), s) /\ FLe(s, FInt(Rated))
  THEN FMul(FInt(Nameplate), FCube(FDiv(s, FInt(Rated))))
  ELSE IF FLt(FInt(Rated), s) THEN FInt(Nameplate)
  ELSE FInt(0)

\* line 105, one month
MonthlyPower(s) ==
  IF FLe(FInt(CutIn), s) /\ FLe(s, FInt(Rated))
  THEN FMul(FInt(Nameplate), FCube(FDiv(s, FInt(Rated))))
  ELSE IF FLt(FInt(Rated), s) /\ FLe(s, FInt(CutOut)) THEN FInt(Nameplate)
  ELSE FInt(0)

\* lines 128-130
AnnualRevenue(energy) == FMul(energy, electricity_price)
AnnualProfit(revenue) == FSub(revenue, FInt(maintenance_yearly))
total_investment == turbine_cost + installation_cost

\* lines 132-137
PaybackPeriod(profit) ==
  IF FGt(profit, FInt(0)) THEN FDiv(FInt(total_investment), profit) ELSE Inf

\* faulty variant: the return is left as a fraction, not a percentage
Roi20YearFraction(profit) ==
  IF FGt(profit, FInt(0))
  THEN FDiv(FSub(FMul(profit, FInt(20)), FInt(total_investment)),
            FInt(total_investment))
  ELSE FInt(-100)

Roi20Year(profit) ==
  IF FGt(profit, FInt(0))
  THEN FMul(FDiv(FSub(FMul(profit, FInt(20)), FInt(total_investment)),
                 FInt(total_investment)),
            FInt(100))
  ELSE FInt(-100)

\* line 149, last Value
Viability(roi) == IF FGt(roi, FInt(0)) THEN "Good" ELSE "Poor"

\* lines 155-171
NextSteps(avg) == IF FGe(avg, FInt(6)) THEN "next_steps" ELSE "alternatives"

\* ------------------------------------------------------------------- state
VARIABLES
  pc,               \* where the button handler stands
  response,         \* what the archive answered (None before the request)
  error,            \* the exception that ended the run, "none" otherwise
  emitted,          \* the elements written to the page, in order
  df_hourly, df_daily,
  avg_wind, power_output, capacity_factor, annual_energy,
  banner,
  df_monthly,
  annual_revenue, annual_profit, payback_period, roi_20_year,
  summary_data

vars == <<pc, response, error, emitted, df_hourly, df_daily, avg_wind,
          power_output, capacity_factor, annual_energy, banner, df_monthly,
          annual_revenue, annual_profit, payback_period, roi_20_year,
          summary_data>>

metricVars == <<avg_wind, power_output, capacity_factor, annual_energy>>
econVars == <<annual_revenue, annual_profit, payback_period, roi_20_year>>

NoResponse == [status |-> "none", hourly |-> FALSE, has_time |-> FALSE,
               has_wind |-> FALSE, time |-> <<>>, wind |-> <<>>]
NoSummary == [viability |-> "", rating |-> ""]

\* the script before the button is pressed: no name of the handler is bound
Init ==
  /\ pc = "idle"
  /\ response = NoResponse
  /\ error = "none"
  /\ emitted = <<>>
  /\ df_hourly = <<>>
  /\ df_daily = <<>>
  /\ avg_wind = None
  /\ power_output = None
  /\ capacity_factor = None
  /\ annual_energy = None
  /\ banner = ""
  /\ df_monthly = <<>>
  /\ annual_revenue = None
  /\ annual_profit = None
  /\ payback_period = None
  /\ roi_20_year = None
  /\ summary_data = NoSummary

\* ----------------------------------------------------------------- actions
\* lines 49-56: the button is pressed and the archive is queried; an
\* exception of fetch_hourly_winds is not caught and ends the run
Fetch ==
  /\ pc = "idle"
  /\ \E resp \in Responses :
       LET r == fetch_hourly_winds(resp)
       IN  /\ response' = resp
           /\ error' = r.error
           /\ df_hourly' = r.df
           /\ pc' = IF r.error = "none" THEN "fetched" ELSE "error"
  /\ UNCHANGED <<emitted, df_daily, metricVars, banner, df_monthly, econVars,
                 summary_data>>

\* line 57
Resample ==
  /\ pc = "fetched"
  /\ df_daily' = DailyMeans(df_hourly)
  /\ pc' = "resampled"
  /\ UNCHANGED <<response, error, emitted, df_hourly, metricVars, banner,
                 df_monthly, econVars, summary_data>>

\* lines 59-67: the completion message and the daily chart
Complete ==
  /\ pc = "resampled"
  /\ emitted' = emitted \o <<"success", "daily_chart">>
  /\ pc' = "charted"
  /\ UNCHANGED <<response, error, df_hourly, df_daily, metricVars, banner,
                 df_monthly, econVars, summary_data>>

\* lines 70-87
KeyMetrics ==
  /\ pc = "charted"
  /\ LET avg   == Mean(Column(df_hourly))
         power == PowerOutput(avg)
         cf    == CapacityFactor(power)
     IN  /\ avg_wind' = avg
         /\ power_output' = power
         /\ capacity_factor' = cf
         /\ annual_energy' = AnnualEnergy(power, cf)
  /\ emitted' = emitted \o <<"metrics">>
  /\ pc' = "metrics"
  /\ UNCHANGED <<response, error, df_hourly, df_daily, banner, df_monthly,
                 econVars, summary_data>>

\* lines 90-98
Recommendation ==
  /\ pc = "metrics"
  /\ banner' = Banner(avg_wind)
  /\ emitted' = emitted \o <<"banner">>
  /\ pc' = "rated"
  /\ UNCHANGED <<response, error, df_hourly, df_daily, metricVars, df_monthly,
                 econVars, summary_data>>

\* lines 101-119
MonthlyTrends ==
  /\ pc = "rated"
  /\ \E jitter \in JitterVectors :
       LET monthly_speeds ==
             [i \in 1..12 |->
                MonthlySpeed(avg_wind, seasonal_multipliers[i], jitter[i])]
           monthly_power == [i \in 1..12 |-> MonthlyPower(monthly_speeds[i])]
       IN  df_monthly' = [i \in 1..12 |->
                            [Month |-> months[i],
                             WindSpeed |-> monthly_speeds[i],
                             PowerOutput |-> monthly_power[i]]]
  /\ emitted' = emitted \o <<"monthly_charts">>
  /\ pc' = "projected"
  /\ UNCHANGED <<response, error, df_hourly, df_daily, metricVars, banner,
                 econVars, summary_data>>

\* lines 122-143
EconomicAnalysis ==
  /\ pc = "projected"
  /\ LET revenue == AnnualRevenue(annual_energy)
         profit  == AnnualProfit(revenue)
     IN  /\ annual_revenue' = revenue
         /\ annual_profit' = profit
         /\ payback_period' = PaybackPeriod(profit)
         /\ roi_20_year' = Roi20Year(profit)
  /\ emitted' = emitted \o <<"economics">>
  /\ pc' = "economics"
  /\ UNCHANGED <<response, error, df_hourly, df_daily, metricVars, banner,
                 df_monthly, summary_data>>

\* lines 146-171
Summary ==
  /\ pc = "economics"
  /\ summary_data' = [viability |-> Viability(roi_20_year),
                      rating |-> SummaryRating(avg_wind)]
  /\ emitted' = emitted \o <<"summary", NextSteps(avg_wind)>>
  /\ pc' = "done"
  /\ UNCHANGED <<response, error, df_hourly, df_daily, metricVars, banner,
                 df_monthly, econVars>>

\* the next interaction reruns the script from the top
Rerun ==
  /\ pc \in {"done", "error"}
  /\ pc' = "idle"
  /\ response' = NoResponse
  /\ error' = "none"
  /\ emitted' = <<>>
  /\ df_hourly' = <<>>
  /\ df_daily' = <<>>
  /\ avg_wind' = None
  /\ power_output' = None
  /\ capacity_factor' = None
  /\ annual_energy' = None
  /\ banner' = ""
  /\ df_monthly' = <<>>
  /\ annual_revenue' = None
  /\ annual_profit' = None
  /\ payback_period' = None
  /\ roi_20_year' = None
  /\ summary_data' = NoSummary

Next ==
  \/ Fetch
  \/ Resample
  \/ Complete
  \/ KeyMetrics
  \/ Recommendation
  \/ MonthlyTrends
  \/ EconomicAnalysis
  \/ Summary
  \/ Rerun

Spec == Init /\ [][Next]_vars

\* ------------------------------------------------------------ properties
Metered == pc \in {"metrics", "rated", "projected", "economics", "done"}
Bannered == pc \in {"rated", "projected", "economics", "done"}
Projected == pc \in {"projected", "economics", "done"}
Costed == pc \in {"economics", "done"}
Resampled == pc \notin {"idle", "fetched", "error"}

Zero == FInt(0)

\* C1: power_output is the piecewise function of the mean speed: 0 below 3
\* and above 25, 5*(v/12)^3 on [3, 12] (3 included), exactly 5 on (12, 25]
\* (25 included).
C1_PowerCurve ==
  (Metered /\ IsNum(avg_wind)) =>
    /\ (FLt(avg_wind, FInt(3)) \/ FGt(avg_wind, FInt(25)))
         => FEq(power_output, Zero)
    /\ (FGe(avg_wind, FInt(3)) /\ FLe(avg_wind, FInt(12)))
         => FEq(FMul(FInt(12 * 12 * 12), power_output),
                FMul(FInt(5), FMul(avg_wind, FMul(avg_wind, avg_wind))))
    /\ (FGt(avg_wind, FInt(12)) /\ FLe(avg_wind, FInt(25)))
         => FEq(power_output, FInt(5))

\* a mean of exactly 3 m/s is on the ramp
C1_Witness ==
  /\ pc = "metrics"
  /\ FEq(avg_wind, FInt(3))
  /\ FGt(power_output, Zero)

RatingWord(label) ==
  CASE label \in {"EXCELLENT", "Excellent"} -> "excellent"
    [] label \in {"GOOD", "Good"} -> "good"
    [] label \in {"FAIR", "Fair"} -> "fair"
    [] label \in {"POOR", "Poor"} -> "poor"
    [] OTHER -> "none"

\* C2: the banner's rating is EXCELLENT on [8, inf), GOOD on [6, 8), FAIR on
\* [4, 6), POOR below 4, and the summary table's Rating column carries the
\* same rating as the banner.
C2_Rating ==
  /\ (Bannered /\ IsNum(avg_wind)) =>
       /\ banner = "EXCELLENT" <=> FGe(avg_wind, FInt(8))
       /\ banner = "GOOD" <=> (FGe(avg_wind, FInt(6)) /\ FLt(avg_wind, FInt(8)))
       /\ banner = "FAIR" <=> (FGe(avg_wind, FInt(4)) /\ FLt(avg_wind, FInt(6)))
       /\ banner = "POOR" <=> FLt(avg_wind, FInt(4))
  /\ pc = "done" =>
       /\ RatingWord(banner) # "none"
       /\ RatingWord(summary_data.rating) = RatingWord(banner)

C2_Witness ==
  /\ pc = "done"
  /\ FEq(avg_wind, FInt(6))
  /\ banner = "GOOD"
  /\ summary_data.rating = "Good"

\* C3: annual_profit = annual_energy * 0.12 - 1000; with a profit > 0,
\* payback = 40000 / profit and roi = (profit*20 - 40000) / 40000 * 100;
\* otherwise payback is infinite and roi = -100.
C3_Economics ==
  Costed =>
    /\ total_investment = 40000
    /\ FEq(FMul(FInt(100), annual_profit),
           FSub(FMul(FInt(12), annual_energy), FInt(100000)))
    /\ FGt(annual_profit, Zero) =>
         /\ FEq(FMul(payback_period, annual_profit), FInt(40000))
         /\ FEq(FMul(FInt(400), roi_20_year),
                FSub(FMul(FInt(20), annual_profit), FInt(40000)))
    /\ ~FGt(annual_profit, Zero) =>
         /\ payback_period = Inf
         /\ FEq(roi_20_year, FInt(-100))

C3_Witness ==
  /\ pc = "economics"
  /\ FGt(annual_profit, Zero)
  /\ IsNum(payback_period)

\* C4: power_output and every monthly power lie in [0, 5], capacity_factor
\* lies in [0, 100], and capacity_factor = 0 exactly when power_output <= 0.
C4_Ranges ==
  /\ Metered =>
       /\ FLe(Zero, power_output) /\ FLe(power_output, FInt(5))
       /\ FLe(Zero, capacity_factor) /\ FLe(capacity_factor, FInt(100))
       /\ FEq(capacity_factor, Zero) <=> FLe(power_output, Zero)
  /\ Projected =>
       /\ Len(df_monthly) = 12
       /\ \A i \in 1..12 :
            /\ FLe(Zero, df_monthly[i].PowerOutput)
            /\ FLe(df_monthly[i].PowerOutput, FInt(5))

C4_Witness ==
  /\ pc = "projected"
  /\ FEq(power_output, FInt(5))
  /\ FEq(capacity_factor, FInt(100))
  /\ \E i \in 1..12 : FEq(df_monthly[i].PowerOutput, FInt(5))
  /\ \E i \in 1..12 : FEq(df_monthly[i].PowerOutput, Zero)

FetchFailed(resp) ==
  \/ resp.status \in {"neterr", "badjson"}
  \/ resp.status = "json" /\ (~resp.hourly \/ ~resp.has_wind)

NothingProduced ==
  /\ emitted = <<>>
  /\ df_hourly = <<>> /\ df_daily = <<>>
  /\ avg_wind = None /\ power_output = None
  /\ capacity_factor = None /\ annual_energy = None
  /\ banner = ""
  /\ df_monthly = <<>>
  /\ annual_revenue = None /\ annual_profit = None
  /\ payback_period = None /\ roi_20_year = None
  /\ summary_data = NoSummary

\* C5: when the fetch fails (network error, body that is not JSON, hourly or
\* windspeed_10m absent) the run ends in an error with nothing produced.
C5_FetchFailure ==
  FetchFailed(response) => (pc = "error" /\ error # "none" /\ NothingProduced)

C5_Witness ==
  /\ pc = "error"
  /\ response.status = "json"
  /\ response.hourly
  /\ ~response.has_wind
  /\ error = "KeyError"

\* C6: the mean of an empty sample set is an error: no power output, rating
\* or economic summary is produced from it.
C6_EmptyInput ==
  (response.status = "json" /\ error = "none" /\ pc # "idle"
     /\ df_hourly = <<>>) =>
    /\ pc \in {"fetched", "resampled", "charted"}
    /\ power_output = None
    /\ banner = ""
    /\ roi_20_year = None

SampleDays == {Day(df_hourly[i].time) : i \in 1..Len(df_hourly)}

RowsOn(day) == {k \in 1..Len(df_hourly) : Day(df_hourly[k].time) = day}

RECURSIVE SumRows(_)
SumRows(S) ==
  IF S = {} THEN Zero
  ELSE LET k == CHOOSE x \in S : TRUE
       IN  FAdd(df_hourly[k].wind_speed, SumRows(S \ {k}))

\* C7 as stated: k samples on d distinct days give exactly d aggregates.
C7_OnePerSampledDay ==
  Resampled => Len(df_daily) = Cardinality(SampleDays)

\* C7, amended: an empty input gives no aggregate; otherwise there is one
\* aggregate per calendar day from the first sampled day to the last, in
\* date order; a day with samples carries their arithmetic mean, a day
\* without samples carries nan.
C7_DailyMeans ==
  Resampled =>
    /\ df_hourly = <<>> => df_daily = <<>>
    /\ df_hourly # <<>> =>
         LET first == Day(df_hourly[1].time)
             last  == Day(df_hourly[Len(df_hourly)].time)
         IN  /\ Len(df_daily) = last - first + 1
             /\ Len(df_daily) >= Cardinality(SampleDays)
             /\ \A i \in 1..Len(df_daily) :
                  LET rows == RowsOn(first + i - 1)
                  IN  /\ df_daily[i].time = (first + i - 1) * HoursPerDay
                      /\ IF rows = {}
                         THEN df_daily[i].wind_speed = NaN
                         ELSE FEq(FMul(df_daily[i].wind_speed,
                                       FInt(Cardinality(rows))),
                                  SumRows(rows))

\* samples on two days with an empty day between them
C7_Witness ==
  /\ pc = "resampled"
  /\ Cardinality(SampleDays) = 2
  /\ Len(df_daily) = 3
  /\ df_daily[2].wind_speed = NaN
  /\ IsNum(df_daily[1].wind_speed)

\* C8 as stated: a projected monthly speed above 25 yields 5 kW.
C8_NoCutOut ==
  Projected =>
    \A i \in 1..12 :
      FGt(df_monthly[i].WindSpeed, FInt(25))
        => FEq(df_monthly[i].PowerOutput, FInt(5))

\* C8, amended: the monthly projection applies the cut-out too: a monthly
\* speed above 25 yields 0, and for every monthly speed the projection and
\* the main power model give the same power (compared where the projection
\* has just been made; df_monthly is not assigned again).
C8_SameCurve ==
  /\ Projected =>
       \A i \in 1..12 :
         FGt(df_monthly[i].WindSpeed, FInt(25))
           => FEq(df_monthly[i].PowerOutput, Zero)
  /\ pc = "projected" =>
       \A i \in 1..12 :
         FEq(df_monthly[i].PowerOutput, PowerOutput(df_monthly[i].WindSpeed))

C8_Witness ==
  /\ pc = "projected"
  /\ FLe(avg_wind, FInt(25))
  /\ FEq(power_output, FInt(5))
  /\ \E i \in 1..12 :
       /\ FGt(df_monthly[i].WindSpeed, FInt(25))
       /\ FEq(df_monthly[i].PowerOutput, Zero)

\* C9: with every sample speed >= 0, every projected monthly wind speed
\* is >= 0.
C9_MonthlySpeedNonNegative ==
  (Projected /\ df_hourly # <<>>
     /\ \A k \in 1..Len(df_hourly) : FGe(df_hourly[k].wind_speed, Zero)) =>
    \A i \in 1..12 : FGe(df_monthly[i].WindSpeed, Zero)

\* C10: a mean speed below 8 gives annual_profit <= 0, an infinite payback,
\* roi = -100 and viability "Poor"; a profit > 0 or viability "Good" occurs
\* only with the rating EXCELLENT.
C10_ProfitOnlyExcellent ==
  /\ Costed =>
       /\ FLt(avg_wind, FInt(8)) =>
            /\ FLe(annual_profit, Zero)
            /\ payback_period = Inf
            /\ FEq(roi_20_year, FInt(-100))
       /\ (FGt(annual_profit, Zero) \/ IsNum(payback_period)
            \/ FGt(roi_20_year, Zero)) => banner = "EXCELLENT"
  /\ pc = "done" =>
       /\ FLt(avg_wind, FInt(8)) => summary_data.viability = "Poor"
       /\ summary_data.viability = "Good" =>
            /\ banner = "EXCELLENT"
            /\ summary_data.rating = "Excellent"

C10_Witness ==
  /\ pc = "done"
  /\ banner = "GOOD"
  /\ FGt(power_output, Zero)
  /\ payback_period = Inf
  /\ summary_data.viability = "Poor"

====
